---- MODULE Spec2Model ----
(***************************************************************************)
(* Day-by-day backtest engine of trendfol (src/backtester.py) and the      *)
(* performance metrics computed from its output (src/metrics.py).          *)
(*                                                                         *)
(* Units.  Prices, ATR and point values are whole numbers.  Money is       *)
(* counted in 1/Scale of a dollar, so that the slippage on a whole price   *)
(* (price * 0.0005) is a whole number of units.  A contract quantity is    *)
(* counted in 1/QScale of a contract: whole-contract mode only produces    *)
(* multiples of QScale, fractional mode keeps the raw size to that         *)
(* resolution (the float's finite precision).                              *)
(***************************************************************************)
EXTENDS Integers, Sequences, FiniteSets, TLC

VARIABLES
    data,             \* run argument: instrument name -> rows of its DataFrame
    instruments,      \* run argument: instrument name -> configuration
    strategy_func,    \* run argument: the strategy
    fractional,       \* constructor argument
    capital,          \* self.capital
    positions,        \* self.positions: instrument name -> Position
    trades,           \* self.trades
    equity_history,   \* self.equity_history: <<date, equity>> pairs
    i,                \* position of the outer loop in all_dates (1-based)
    k,                \* position of the inner loop in data.items() (1-based)
    pc,               \* where run stands
    loc,              \* locals of the latest body of the inner loop
    metrics           \* the BacktestMetrics returned by compute_metrics

vars == <<data, instruments, strategy_func, fractional, capital, positions,
          trades, equity_history, i, k, pc, loc, metrics>>

(***************************************************************************)
(* Bounds and program constants                                            *)
(***************************************************************************)
MaxDate == 6
MaxAtr == 6
MaxLen == 5
MaxTrades == 2

slippage_num == 5
slippage_den == 10000
commission_per_contract == 8500
exchange_fee_per_contract == 15000
risk_factor_den == 500
initial_capital_default == 100000
QScale == 100
Inf == 1000000000
NaN == -999

Scale == slippage_den
UnitsPerQ == Scale \div QScale
total_per_contract == commission_per_contract + exchange_fee_per_contract
initial_capital == initial_capital_default * Scale

(***************************************************************************)
(* Small helpers                                                           *)
(***************************************************************************)
Max(a, b) == IF a >= b THEN a ELSE b
Min(a, b) == IF a <= b THEN a ELSE b
SetMin(S) == CHOOSE x \in S : \A y \in S : x <= y

RECURSIVE SortedSeq(_)
SortedSeq(S) == IF S = {} THEN <<>>
                ELSE <<SetMin(S)>> \o SortedSeq(S \ {SetMin(S)})

RECURSIVE SumOver(_, _)
SumOver(f, S) == IF S = {} THEN 0
                 ELSE LET x == CHOOSE y \in S : TRUE
                      IN f[x] + SumOver(f, S \ {x})

RECURSIVE SumSeq(_)
SumSeq(s) == IF s = <<>> THEN 0 ELSE Head(s) + SumSeq(Tail(s))

\* int(x / d) for d > 0: truncation toward zero
TruncDiv(x, d) == IF x >= 0 THEN x \div d ELSE -((-x) \div d)

(***************************************************************************)
(* Input data                                                              *)
(***************************************************************************)
OpenTab == <<120, 80, 140, 60, 100, 160>>
AtrTab == <<NaN, 0, 2, 5, 2, 2>>
Cyc(tab, d) == tab[((d - 1) % Len(tab)) + 1]

Row(shape, d) ==
    IF shape = "trend"
    THEN [date |-> d, Open |-> 60 + 40 * d, High |-> 120 + 40 * d,
          Low |-> 40 + 40 * d, Close |-> 80 + 40 * d, atr |-> 2]
    ELSE LET o == Cyc(OpenTab, d)
             c == IF d % 2 = 1 THEN o - 20 ELSE o + 20
         IN [date |-> d, Open |-> o, High |-> Max(o, c) + 20,
             Low |-> Min(o, c) - 20, Close |-> c, atr |-> Cyc(AtrTab, d)]

Rows(shape, cal) == LET s == SortedSeq(cal)
                    IN [n \in DOMAIN s |-> Row(shape, s[n])]

\* an instrument's configuration dict; NoPointValue has no "point_value" key
Cfg(pv) == [has_point_value |-> TRUE, point_value |-> pv]
NoPointValue == [has_point_value |-> FALSE, point_value |-> 0]

RoundTripSignals == <<0, 0, 1, 1, 0>>

Universes ==
    { [data |-> ("A" :> Rows("trend", 1..MaxDate)),
       instruments |-> ("A" :> Cfg(1))],
      [data |-> ("A" :> Rows("trend", 1..Len(RoundTripSignals))),
       instruments |-> ("A" :> Cfg(1))],
      [data |-> ("A" :> Rows("zigzag", 1..MaxDate)),
       instruments |-> ("A" :> Cfg(50))],
      [data |-> ("A" :> Rows("zigzag", (1..MaxDate) \ {3, 4})),
       instruments |-> ("A" :> Cfg(0))],
      [data |-> ("A" :> Rows("trend", 1..MaxDate) @@ "B" :> Rows("zigzag", {3, 5})),
       instruments |-> ("A" :> Cfg(1) @@ "B" :> Cfg(50))],
      [data |-> ("A" :> Rows("zigzag", {2, 3, MaxDate}) @@ "B" :> Rows("trend", {1, 2, 4})),
       instruments |-> ("A" :> Cfg(50) @@ "B" :> Cfg(1))],
      [data |-> ("A" :> Rows("trend", {1, 2, 3})),
       instruments |-> ("A" :> NoPointValue)],
      [data |-> ("A" :> Rows("trend", {1, 2}) @@ "B" :> Rows("trend", {2, 3})),
       instruments |-> ("A" :> Cfg(1))] }

Strategies == {"any", "flat", "roundtrip"}

(***************************************************************************)
(* DataFrame access                                                        *)
(***************************************************************************)
Index(df) == {df[n].date : n \in DOMAIN df}
Loc(df, date) == df[CHOOSE n \in DOMAIN df : df[n].date = date]
\* mutant: positions counted from 1
idx_map_from_one(df) == [d \in Index(df) |-> CHOOSE n \in DOMAIN df : df[n].date = d]

\* date_indices[inst_name]: date -> 0-based position
idx_map(df) == [d \in Index(df) |-> (CHOOSE n \in DOMAIN df : df[n].date = d) - 1]
MapGet(m, key, default) == IF key \in DOMAIN m THEN m[key] ELSE default

all_dates == SortedSeq(UNION {Index(data[n]) : n \in DOMAIN data})
\* data.items(): the instruments in insertion order
InstNames == <<"A", "B">>
InDataP(n) == n \in DOMAIN data
items == SelectSeq(InstNames, InDataP)
\* str(ts.date()): the index holds one midnight timestamp per trading day,
\* counted in days, and the string names that day
DateStr(ts) == ts

(***************************************************************************)
(* The strategy: the set of signals it may return for a row                *)
(***************************************************************************)
StrategySignals(date, inst_name) ==
    LET n == Cardinality({d \in Index(data[inst_name]) : d <= date})
    IN CASE strategy_func = "flat" -> {0}
         [] strategy_func = "roundtrip" ->
                {IF n <= Len(RoundTripSignals) THEN RoundTripSignals[n] ELSE 0}
         [] OTHER -> {-1, 0, 1}

(***************************************************************************)
(* Cost model and accounting                                               *)
(***************************************************************************)
_calc_costs(contracts, price) ==
    LET commission == contracts * total_per_contract
        slippage == contracts * price * slippage_num
    IN (commission + slippage) \div QScale

GrossPnl(pos, price) ==
    (price - pos.entry_price) * pos.direction * pos.contracts * pos.point_value * UnitsPerQ

\* mutant: the risk budget is multiplied by the ATR instead of divided by it
SizeContractsTimesAtr(cap, current_atr, point_value) ==
    IF current_atr # NaN /\ current_atr > 0 /\ point_value > 0
    THEN IF fractional
         THEN TruncDiv(cap, UnitsPerQ * risk_factor_den * QScale * point_value) * current_atr
         ELSE QScale * TruncDiv(cap, Scale * risk_factor_den * QScale * point_value) * current_atr
    ELSE 0

\* mutant: whole contracts are rounded up
SizeContractsCeil(cap, current_atr, point_value) ==
    IF current_atr # NaN /\ current_atr > 0 /\ point_value > 0
    THEN IF fractional
         THEN TruncDiv(cap, UnitsPerQ * risk_factor_den * current_atr * point_value)
         ELSE QScale * (TruncDiv(cap - 1, Scale * risk_factor_den * current_atr * point_value) + 1)
    ELSE 0

\* lines 238-247: contracts, in 1/QScale of a contract
SizeContracts(cap, current_atr, point_value) ==
    IF current_atr # NaN /\ current_atr > 0 /\ point_value > 0
    THEN IF fractional
         THEN TruncDiv(cap, UnitsPerQ * risk_factor_den * current_atr * point_value)
         ELSE QScale * TruncDiv(cap, Scale * risk_factor_den * current_atr * point_value)
    ELSE 0

State == [capital |-> capital, positions |-> positions, trades |-> trades]

\* mutant: no early return when the size is not positive
_open_position_unguarded(st, instrument, direction, price, date, current_atr, inst_config) ==
    LET point_value == inst_config.point_value
        contracts == SizeContracts(st.capital, current_atr, point_value)
        entry_cost == _calc_costs(contracts, price)
        pos == [instrument |-> instrument, direction |-> direction,
                contracts |-> contracts, entry_price |-> price,
                entry_date |-> date, point_value |-> point_value,
                entry_atr |-> current_atr,
                peak_price |-> IF direction = 1 THEN price ELSE 0,
                trough_price |-> IF direction = -1 THEN price ELSE Inf]
    IN [st EXCEPT !.capital = st.capital - entry_cost,
                  !.positions = [n \in DOMAIN st.positions \cup {instrument} |->
                                   IF n = instrument THEN pos ELSE st.positions[n]]]

\* mutant: no entry cost is charged
_open_position_free(st, instrument, direction, price, date, current_atr, inst_config) ==
    LET point_value == inst_config.point_value
        contracts == SizeContracts(st.capital, current_atr, point_value)
        pos == [instrument |-> instrument, direction |-> direction,
                contracts |-> contracts, entry_price |-> price,
                entry_date |-> date, point_value |-> point_value,
                entry_atr |-> current_atr,
                peak_price |-> IF direction = 1 THEN price ELSE 0,
                trough_price |-> IF direction = -1 THEN price ELSE Inf]
    IN IF contracts <= 0 THEN st
       ELSE [st EXCEPT !.positions = [n \in DOMAIN st.positions \cup {instrument} |->
                                        IF n = instrument THEN pos ELSE st.positions[n]]]

\* lines 232-266
_open_position(st, instrument, direction, price, date, current_atr, inst_config) ==
    LET point_value == inst_config.point_value
        contracts == SizeContracts(st.capital, current_atr, point_value)
        entry_cost == _calc_costs(contracts, price)
        pos == [instrument |-> instrument, direction |-> direction,
                contracts |-> contracts, entry_price |-> price,
                entry_date |-> date, point_value |-> point_value,
                entry_atr |-> current_atr,
                peak_price |-> IF direction = 1 THEN price ELSE 0,
                trough_price |-> IF direction = -1 THEN price ELSE Inf]
    IN IF contracts <= 0 THEN st
       ELSE [st EXCEPT !.capital = st.capital - entry_cost,
                       !.positions = [n \in DOMAIN st.positions \cup {instrument} |->
                                        IF n = instrument THEN pos ELSE st.positions[n]]]

\* mutant: the closed position is not entered in the ledger
_close_position_no_trade(st, instrument, price, date) ==
    IF instrument \notin DOMAIN st.positions THEN st
    ELSE LET pos == st.positions[instrument]
             gross_pnl == GrossPnl(pos, price)
             exit_cost == _calc_costs(pos.contracts, price)
         IN [capital |-> st.capital + gross_pnl - exit_cost,
             positions |-> [n \in DOMAIN st.positions \ {instrument} |-> st.positions[n]],
             trades |-> st.trades]

\* mutant: the entry cost is charged to capital a second time at close
_close_position_charges_entry(st, instrument, price, date) ==
    IF instrument \notin DOMAIN st.positions THEN st
    ELSE LET pos == st.positions[instrument]
             gross_pnl == GrossPnl(pos, price)
             exit_cost == _calc_costs(pos.contracts, price)
             entry_cost == _calc_costs(pos.contracts, pos.entry_price)
             total_costs == entry_cost + exit_cost
             net_pnl == gross_pnl - exit_cost
             new_capital == st.capital + gross_pnl - total_costs
             entry_equity == new_capital - net_pnl + total_costs
             trade == [instrument |-> pos.instrument, direction |-> pos.direction,
                       contracts |-> pos.contracts, entry_price |-> pos.entry_price,
                       exit_price |-> price, entry_date |-> pos.entry_date,
                       exit_date |-> date, pnl |-> net_pnl,
                       pnl_pct |-> IF entry_equity > 0 THEN <<net_pnl, entry_equity>>
                                   ELSE <<0, 1>>,
                       gross_pnl |-> gross_pnl, costs |-> total_costs,
                       holding_days |-> date - pos.entry_date]
         IN [capital |-> new_capital,
             positions |-> [n \in DOMAIN st.positions \ {instrument} |-> st.positions[n]],
             trades |-> Append(st.trades, trade)]

\* mutant: the trade's pnl is net of the entry cost too
_close_position_net_of_all(st, instrument, price, date) ==
    IF instrument \notin DOMAIN st.positions THEN st
    ELSE LET pos == st.positions[instrument]
             gross_pnl == GrossPnl(pos, price)
             exit_cost == _calc_costs(pos.contracts, price)
             entry_cost == _calc_costs(pos.contracts, pos.entry_price)
             total_costs == entry_cost + exit_cost
             net_pnl == gross_pnl - total_costs
             new_capital == st.capital + gross_pnl - exit_cost
             entry_equity == new_capital - net_pnl + total_costs
             trade == [instrument |-> pos.instrument, direction |-> pos.direction,
                       contracts |-> pos.contracts, entry_price |-> pos.entry_price,
                       exit_price |-> price, entry_date |-> pos.entry_date,
                       exit_date |-> date, pnl |-> net_pnl,
                       pnl_pct |-> IF entry_equity > 0 THEN <<net_pnl, entry_equity>>
                                   ELSE <<0, 1>>,
                       gross_pnl |-> gross_pnl, costs |-> total_costs,
                       holding_days |-> date - pos.entry_date]
         IN [capital |-> new_capital,
             positions |-> [n \in DOMAIN st.positions \ {instrument} |-> st.positions[n]],
             trades |-> Append(st.trades, trade)]

\* mutant: the holding period is counted in rows of the instrument
_close_position_trading_days(st, instrument, price, date) ==
    IF instrument \notin DOMAIN st.positions THEN st
    ELSE LET pos == st.positions[instrument]
             gross_pnl == GrossPnl(pos, price)
             exit_cost == _calc_costs(pos.contracts, price)
             entry_cost == _calc_costs(pos.contracts, pos.entry_price)
             total_costs == entry_cost + exit_cost
             net_pnl == gross_pnl - exit_cost
             new_capital == st.capital + gross_pnl - exit_cost
             entry_equity == new_capital - net_pnl + total_costs
             trade == [instrument |-> pos.instrument, direction |-> pos.direction,
                       contracts |-> pos.contracts, entry_price |-> pos.entry_price,
                       exit_price |-> price, entry_date |-> pos.entry_date,
                       exit_date |-> date, pnl |-> net_pnl,
                       pnl_pct |-> IF entry_equity > 0 THEN <<net_pnl, entry_equity>>
                                   ELSE <<0, 1>>,
                       gross_pnl |-> gross_pnl, costs |-> total_costs,
                       holding_days |->
                         Cardinality({d \in Index(data[instrument]) :
                                        pos.entry_date < d /\ d <= date})]
         IN [capital |-> new_capital,
             positions |-> [n \in DOMAIN st.positions \ {instrument} |-> st.positions[n]],
             trades |-> Append(st.trades, trade)]

\* mutant: the percentage is taken of the capital after the close
_close_position_pct_of_capital(st, instrument, price, date) ==
    IF instrument \notin DOMAIN st.positions THEN st
    ELSE LET pos == st.positions[instrument]
             gross_pnl == GrossPnl(pos, price)
             exit_cost == _calc_costs(pos.contracts, price)
             entry_cost == _calc_costs(pos.contracts, pos.entry_price)
             total_costs == entry_cost + exit_cost
             net_pnl == gross_pnl - exit_cost
             new_capital == st.capital + gross_pnl - exit_cost
             entry_equity == new_capital
             trade == [instrument |-> pos.instrument, direction |-> pos.direction,
                       contracts |-> pos.contracts, entry_price |-> pos.entry_price,
                       exit_price |-> price, entry_date |-> pos.entry_date,
                       exit_date |-> date, pnl |-> net_pnl,
                       pnl_pct |-> IF entry_equity > 0 THEN <<net_pnl, entry_equity>>
                                   ELSE <<0, 1>>,
                       gross_pnl |-> gross_pnl, costs |-> total_costs,
                       holding_days |-> date - pos.entry_date]
         IN [capital |-> new_capital,
             positions |-> [n \in DOMAIN st.positions \ {instrument} |-> st.positions[n]],
             trades |-> Append(st.trades, trade)]

\* lines 268-314; pnl_pct is kept as the exact fraction <<numerator, denominator>>
_close_position(st, instrument, price, date) ==
    IF instrument \notin DOMAIN st.positions THEN st
    ELSE LET pos == st.positions[instrument]
             gross_pnl == GrossPnl(pos, price)
             exit_cost == _calc_costs(pos.contracts, price)
             entry_cost == _calc_costs(pos.contracts, pos.entry_price)
             total_costs == entry_cost + exit_cost
             net_pnl == gross_pnl - exit_cost
             new_capital == st.capital + gross_pnl - exit_cost
             entry_equity == new_capital - net_pnl + total_costs
             trade == [instrument |-> pos.instrument, direction |-> pos.direction,
                       contracts |-> pos.contracts, entry_price |-> pos.entry_price,
                       exit_price |-> price, entry_date |-> pos.entry_date,
                       exit_date |-> date, pnl |-> net_pnl,
                       pnl_pct |-> IF entry_equity > 0 THEN <<net_pnl, entry_equity>>
                                   ELSE <<0, 1>>,
                       gross_pnl |-> gross_pnl, costs |-> total_costs,
                       holding_days |-> date - pos.entry_date]
         IN [capital |-> new_capital,
             positions |-> [n \in DOMAIN st.positions \ {instrument} |-> st.positions[n]],
             trades |-> Append(st.trades, trade)]

\* mutant: an instrument without a row on the date is marked at the Close of
\* its latest earlier row
_mark_to_market_ffill(date) ==
    LET marked == {n \in DOMAIN positions :
                     n \in DOMAIN data /\ \E d \in Index(data[n]) : d <= date}
        last(n) == CHOOSE d \in Index(data[n]) :
                     d <= date /\ \A e \in Index(data[n]) : e <= date => e <= d
        pnl == [n \in marked |-> GrossPnl(positions[n], Loc(data[n], last(n)).Close)]
    IN SumOver(pnl, marked)

\* mutant: positions are marked at the Open of the date
_mark_to_market_at_open(date) ==
    LET marked == {n \in DOMAIN positions : n \in DOMAIN data /\ date \in Index(data[n])}
        pnl == [n \in marked |-> GrossPnl(positions[n], Loc(data[n], date).Open)]
    IN SumOver(pnl, marked)

\* lines 326-336
_mark_to_market(date) ==
    LET marked == {n \in DOMAIN positions : n \in DOMAIN data /\ date \in Index(data[n])}
        pnl == [n \in marked |-> GrossPnl(positions[n], Loc(data[n], date).Close)]
    IN SumOver(pnl, marked)

\* mutant: the cash capital is left out of the equity
EquityUnrealizedOnly(cap, unrealized_pnl) == unrealized_pnl

\* line 147 and line 197: equity = self.capital + unrealized_pnl
EquityOf(cap, unrealized_pnl) == cap + unrealized_pnl

\* mutant: the references follow the latest High and Low
_update_trailing_latest(date) ==
    [n \in DOMAIN positions |->
        LET pos == positions[n]
        IN IF n \notin DOMAIN data \/ date \notin Index(data[n]) THEN pos
           ELSE IF pos.direction = 1
                THEN [pos EXCEPT !.peak_price = Loc(data[n], date).High]
                ELSE [pos EXCEPT !.trough_price = Loc(data[n], date).Low]]

\* lines 338-349
_update_trailing(date) ==
    [n \in DOMAIN positions |->
        LET pos == positions[n]
        IN IF n \notin DOMAIN data \/ date \notin Index(data[n]) THEN pos
           ELSE IF pos.direction = 1
                THEN [pos EXCEPT !.peak_price = Max(pos.peak_price, Loc(data[n], date).High)]
                ELSE [pos EXCEPT !.trough_price = Min(pos.trough_price, Loc(data[n], date).Low)]]

(***************************************************************************)
(* run                                                                     *)
(***************************************************************************)
\* no compute_metrics call has returned
NoMetrics == [total_trades |-> -1]

NoLocals == [inst_name |-> "", date |-> 0, signal |-> 0, current_dir |-> 0,
             executed |-> FALSE, exec_price |-> 0, exec_date |-> 0]

Init ==
    /\ \E u \in Universes : data = u.data /\ instruments = u.instruments
    /\ strategy_func \in Strategies
    /\ fractional \in BOOLEAN
    /\ capital = initial_capital
    /\ positions = <<>>
    /\ trades = <<>>
    /\ equity_history = <<>>
    /\ i = 1
    /\ k = 1
    /\ pc = "mark"
    /\ loc = NoLocals
    /\ metrics = NoMetrics

inputs == <<data, instruments, strategy_func, fractional>>

\* steps 1 and 2 of an iteration: mark to market, record the equity
RecordEquity ==
    /\ pc = "mark"
    /\ equity_history' = Append(equity_history,
            <<all_dates[i], EquityOf(capital, _mark_to_market(all_dates[i]))>>)
    /\ pc' = "signal"
    /\ k' = 1
    /\ UNCHANGED <<inputs, metrics, capital, positions, trades, i, loc>>

\* inner loop body for an instrument without a row on the date: continue
SkipInstrument ==
    /\ pc = "signal"
    /\ k <= Len(items)
    /\ all_dates[i] \notin Index(data[items[k]])
    /\ k' = k + 1
    /\ UNCHANGED <<inputs, metrics, capital, positions, trades, equity_history, i, pc, loc>>

\* line 156: instruments[inst_name] for an instrument without configuration
ConfigKeyError ==
    /\ pc = "signal"
    /\ k <= Len(items)
    /\ all_dates[i] \in Index(data[items[k]])
    /\ items[k] \notin DOMAIN instruments
    /\ pc' = "raised"
    /\ UNCHANGED <<inputs, metrics, capital, positions, trades, equity_history, i, k, loc>>

CurrentDir(pos_map, inst_name) ==
    IF inst_name \in DOMAIN pos_map THEN pos_map[inst_name].direction ELSE 0

NotExecuted(st) ==
    [capital |-> st.capital, positions |-> st.positions, trades |-> st.trades,
     executed |-> FALSE, exec_price |-> 0, exec_date |-> 0, raised |-> FALSE]

\* mutant: the fill is taken from the row of the decision date
NextRowSameDay(df, next_idx) == df[next_idx + 1]

\* lines 170-172: the row of df.index[next_idx + 1] (next_idx is 0-based)
NextRow(df, next_idx) == df[next_idx + 2]

\* mutant: a reversal opens the new position without closing the open one
CloseExistingSkipped(st, inst_name, exec_price, exec_date) == st

\* mutant: the close is dated one day before the fill
CloseExistingDayEarly(st, inst_name, exec_price, exec_date) ==
    IF inst_name \in DOMAIN st.positions
    THEN _close_position(st, inst_name, exec_price, DateStr(exec_date - 1))
    ELSE st

\* lines 175-178
CloseExisting(st, inst_name, exec_price, exec_date) ==
    IF inst_name \in DOMAIN st.positions
    THEN _close_position(st, inst_name, exec_price, DateStr(exec_date))
    ELSE st

\* mutant: the new position is sized from the capital before the close
FillSizedBeforeClose(st, inst_name, signal, exec_price, exec_date, current_atr) ==
    LET inst_config == instruments[inst_name]
        closed == CloseExisting(st, inst_name, exec_price, exec_date)
        key_error == signal # 0 /\ ~inst_config.has_point_value
        sized == IF signal # 0 /\ ~key_error
                 THEN _open_position([closed EXCEPT !.capital = st.capital],
                                     inst_name, signal, exec_price,
                                     DateStr(exec_date), current_atr, inst_config)
                 ELSE [closed EXCEPT !.capital = st.capital]
    IN [capital |-> sized.capital + (closed.capital - st.capital),
        positions |-> sized.positions,
        trades |-> sized.trades, executed |-> TRUE,
        exec_price |-> exec_price, exec_date |-> exec_date,
        raised |-> key_error]

\* lines 174-187: close the open position, open the new one; raised tells
\* whether _open_position raised KeyError on inst_config["point_value"]
Fill(st, inst_name, signal, exec_price, exec_date, current_atr) ==
    LET inst_config == instruments[inst_name]
        closed == CloseExisting(st, inst_name, exec_price, exec_date)
        key_error == signal # 0 /\ ~inst_config.has_point_value
        opened == IF signal # 0 /\ ~key_error
                  THEN _open_position(closed, inst_name, signal, exec_price,
                                      DateStr(exec_date), current_atr, inst_config)
                  ELSE closed
    IN [capital |-> opened.capital, positions |-> opened.positions,
        trades |-> opened.trades, executed |-> TRUE,
        exec_price |-> exec_price, exec_date |-> exec_date,
        raised |-> key_error]

\* mutant: at the end of the series the transition is filled at the Open of
\* the decision date
ExecuteAtEndToo(st, inst_name, date, signal) ==
    LET df == data[inst_name]
        row == Loc(df, date)
        next_idx == MapGet(idx_map(df), date, -1)
    IN IF next_idx >= 0 /\ next_idx + 1 < Len(df)
       THEN Fill(st, inst_name, signal, NextRow(df, next_idx).Open,
                 NextRow(df, next_idx).date, row.atr)
       ELSE Fill(st, inst_name, signal, row.Open, row.date, row.atr)

\* lines 165-187: the execution of a transition decided on `date`; the outcome
\* is the engine state with the locals exec_price and exec_date
Execute(st, inst_name, date, signal) ==
    LET df == data[inst_name]
        row == Loc(df, date)
        next_idx == MapGet(idx_map(df), date, -1)
    IN IF next_idx >= 0 /\ next_idx + 1 < Len(df)
       THEN Fill(st, inst_name, signal, NextRow(df, next_idx).Open,
                 NextRow(df, next_idx).date, row.atr)
       ELSE NotExecuted(st)

\* inner loop body for an instrument with a row on the date (lines 155-187)
InstrumentStep ==
    /\ pc = "signal"
    /\ k <= Len(items)
    /\ all_dates[i] \in Index(data[items[k]])
    /\ items[k] \in DOMAIN instruments
    /\ \E signal \in StrategySignals(all_dates[i], items[k]) :
         LET inst_name == items[k]
             date == all_dates[i]
             current_dir == CurrentDir(positions, inst_name)
             out == IF signal # current_dir
                    THEN Execute(State, inst_name, date, signal)
                    ELSE NotExecuted(State)
         IN /\ capital' = out.capital
            /\ positions' = out.positions
            /\ trades' = out.trades
            /\ loc' = [inst_name |-> inst_name, date |-> date, signal |-> signal,
                       current_dir |-> current_dir, executed |-> out.executed,
                       exec_price |-> out.exec_price, exec_date |-> out.exec_date]
            /\ IF out.raised
               THEN pc' = "raised" /\ k' = k
               ELSE pc' = pc /\ k' = k + 1
    /\ UNCHANGED <<inputs, metrics, equity_history, i>>

\* end of an iteration: update the trailing references, next date
UpdateTrailing ==
    /\ pc = "signal"
    /\ k > Len(items)
    /\ positions' = _update_trailing(all_dates[i])
    /\ IF i < Len(all_dates)
       THEN i' = i + 1 /\ pc' = "mark"
       ELSE i' = i /\ pc' = "final"
    /\ UNCHANGED <<inputs, metrics, capital, trades, equity_history, k, loc>>

\* lines 192-197: the last equity observation is replaced
FinalEquity ==
    /\ pc = "final"
    /\ equity_history' =
         [equity_history EXCEPT ![Len(equity_history)] =
            <<equity_history[Len(equity_history)][1],
              EquityOf(capital, _mark_to_market(all_dates[Len(all_dates)]))>>]
    /\ pc' = "done"
    /\ UNCHANGED <<inputs, metrics, capital, positions, trades, i, k, loc>>

Next ==
    \/ RecordEquity
    \/ SkipInstrument
    \/ ConfigKeyError
    \/ InstrumentStep
    \/ UpdateTrailing
    \/ FinalEquity

Spec == Init /\ [][Next]_vars

(***************************************************************************)
(* compute_metrics (src/metrics.py)                                        *)
(*                                                                         *)
(* A float is kept as the exact fraction <<n, d>> in lowest terms, d > 0;  *)
(* float("inf") is <<1, 0>>.  A Series is a sequence of <<date, value>>    *)
(* pairs, dates counted in days.  The statistics that need roots, powers   *)
(* or month boundaries (CAGR, volatility, Sharpe, Sortino, Calmar, sample  *)
(* error, monthly returns) are not computed: none of the modelled fields   *)
(* reads them.                                                             *)
(***************************************************************************)
Abs(x) == IF x < 0 THEN -x ELSE x

RECURSIVE Gcd(_, _)
Gcd(a, b) == IF b = 0 THEN a ELSE Gcd(b, a % b)

float_inf == <<1, 0>>
Zero == <<0, 1>>
Frac(n, d) == LET g == Gcd(Abs(n), d) IN <<n \div g, d \div g>>
FracAdd(a, b) == Frac(a[1] * b[2] + b[1] * a[2], a[2] * b[2])
FracLess(a, b) == a[1] * b[2] < b[1] * a[2]
FracTimes(a, m) == Frac(a[1] * m, a[2])
\* a / b for b # 0
FracOver(a, b) == IF b[1] > 0 THEN Frac(a[1] * b[2], a[2] * b[1])
                  ELSE Frac(-(a[1] * b[2]), a[2] * (-b[1]))
FracAbs(a) == <<Abs(a[1]), a[2]>>

RECURSIVE FracSum(_)
FracSum(s) == IF s = <<>> THEN Zero ELSE FracAdd(Head(s), FracSum(Tail(s)))
\* np.mean of a non-empty list
FracMean(s) == LET t == FracSum(s) IN Frac(t[1], t[2] * Len(s))

SetMax(S) == CHOOSE x \in S : \A y \in S : x >= y

\* the input series: positive equity values on a daily calendar or on a
\* calendar with a two-day gap after every second trading day
EquityValues == {80, 90, 100}
Calendars == {"daily", "gapped"}
TradingDay(cal, n) == IF cal = "daily" THEN n ELSE n + 2 * ((n - 1) \div 2)
EquityCurves ==
    UNION {{[n \in 1..len |-> <<TradingDay(cal, n), v[n]>>] :
              v \in [1..len -> EquityValues]} :
           cal \in Calendars, len \in 1..MaxLen}

\* the input ledgers: a winning, a losing and a break-even trade, and a
\* winning trade whose pnl_pct is 0 (entry equity not positive)
TradeDict(pnl, pnl_pct, entry_date, exit_date) ==
    [pnl |-> pnl, pnl_pct |-> pnl_pct, entry_date |-> entry_date,
     exit_date |-> exit_date]
TradeKinds == {TradeDict(10, <<10, 100>>, 1, 3), TradeDict(-5, <<-5, 100>>, 2, 3),
               TradeDict(0, <<0, 100>>, 1, 2), TradeDict(20, <<0, 1>>, 2, 5)}
Ledgers == UNION {[1..n -> TradeKinds] : n \in 0..MaxTrades}

\* pd.Timestamp of a date string: the day
Timestamp(date) == date

\* mutant: the maximum of the whole series
cummax_whole(equity_curve) ==
    [n \in DOMAIN equity_curve |->
        <<equity_curve[n][1],
          SetMax({equity_curve[j][2] : j \in DOMAIN equity_curve})>>]

\* line 97: equity_curve.cummax()
cummax(equity_curve) ==
    [n \in DOMAIN equity_curve |->
        <<equity_curve[n][1], SetMax({equity_curve[j][2] : j \in 1..n})>>]

\* line 98: (equity_curve - cummax) / cummax
Drawdown(equity_curve) ==
    LET cm == cummax(equity_curve)
    IN [n \in DOMAIN equity_curve |->
          <<equity_curve[n][1], Frac(equity_curve[n][2] - cm[n][2], cm[n][2])>>]

\* line 99: drawdown.min()
SeriesMin(series) ==
    series[CHOOSE n \in DOMAIN series :
             \A j \in DOMAIN series : ~FracLess(series[j][2], series[n][2])][2]

\* mutant: every in-drawdown day falls in one group
_max_drawdown_duration_one_run(drawdown) ==
    LET in_dd == [n \in DOMAIN drawdown |-> drawdown[n][2][1] < 0]
        members == {n \in DOMAIN drawdown : in_dd[n]}
    IN IF members = {} THEN 0
       ELSE Max(0, drawdown[SetMax(members)][1] - drawdown[SetMin(members)][1])

\* mutant: a run is measured in observations
_max_drawdown_duration_rows(drawdown) ==
    LET in_dd == [n \in DOMAIN drawdown |-> drawdown[n][2][1] < 0]
        groups == [n \in DOMAIN drawdown |-> Cardinality({j \in 1..n : ~in_dd[j]})]
        keys == {groups[n] : n \in {j \in DOMAIN drawdown : in_dd[j]}}
        members(g) == {n \in DOMAIN drawdown : in_dd[n] /\ groups[n] = g}
    IN IF \A n \in DOMAIN drawdown : ~in_dd[n] THEN 0
       ELSE SetMax({0} \cup {Cardinality(members(g)) : g \in keys})

\* lines 249-264
_max_drawdown_duration(drawdown) ==
    LET in_dd == [n \in DOMAIN drawdown |-> drawdown[n][2][1] < 0]
        groups == [n \in DOMAIN drawdown |-> Cardinality({j \in 1..n : ~in_dd[j]})]
        keys == {groups[n] : n \in {j \in DOMAIN drawdown : in_dd[j]}}
        members(g) == {n \in DOMAIN drawdown : in_dd[n] /\ groups[n] = g}
        duration(g) == Timestamp(drawdown[SetMax(members(g))][1])
                       - Timestamp(drawdown[SetMin(members(g))][1])
    IN IF \A n \in DOMAIN drawdown : ~in_dd[n] THEN 0
       ELSE SetMax({0} \cup {duration(g) : g \in keys})

\* mutant: no loss gives a profit factor of 0
ProfitFactorZero(gross_profit, gross_loss) ==
    IF gross_loss > 0 THEN Frac(gross_profit, gross_loss) ELSE Zero

\* line 137
ProfitFactor(gross_profit, gross_loss) ==
    IF gross_loss > 0 THEN Frac(gross_profit, gross_loss) ELSE float_inf

\* line 139
PayoffRatio(avg_win, avg_loss) ==
    IF avg_loss[1] # 0 THEN FracAbs(FracOver(avg_win, avg_loss)) ELSE float_inf

IsWin(p) == p > 0
IsLoss(p) == p <= 0
IsWinPct(p) == p[1] > 0
IsLossPct(p) == p[1] <= 0

\* lines 113-150: the statistics of the trades
TradeStatistics(trade_dicts) ==
    LET n_trades == Len(trade_dicts)
        pnls == [n \in DOMAIN trade_dicts |-> trade_dicts[n].pnl]
        pnl_pcts == [n \in DOMAIN trade_dicts |-> trade_dicts[n].pnl_pct]
        durations == [n \in DOMAIN trade_dicts |->
                        Timestamp(trade_dicts[n].exit_date)
                        - Timestamp(trade_dicts[n].entry_date)]
        wins == SelectSeq(pnls, IsWin)
        losses == SelectSeq(pnls, IsLoss)
        win_pcts == SelectSeq(pnl_pcts, IsWinPct)
        loss_pcts == SelectSeq(pnl_pcts, IsLossPct)
        avg_win == IF win_pcts # <<>> THEN FracTimes(FracMean(win_pcts), 100) ELSE Zero
        avg_loss == IF loss_pcts # <<>> THEN FracTimes(FracMean(loss_pcts), 100) ELSE Zero
        gross_profit == IF wins # <<>> THEN SumSeq(wins) ELSE 0
        gross_loss == IF losses # <<>> THEN Abs(SumSeq(losses)) ELSE 0
    IN IF n_trades > 0
       THEN [total_trades |-> n_trades,
             winning_trades |-> Len(wins),
             losing_trades |-> Len(losses),
             win_rate_pct |-> Frac(Len(wins) * 100, n_trades),
             avg_win_pct |-> avg_win,
             avg_loss_pct |-> avg_loss,
             profit_factor |-> ProfitFactor(gross_profit, gross_loss),
             payoff_ratio |-> PayoffRatio(avg_win, avg_loss),
             avg_trade_duration_days |-> Frac(SumSeq(durations), n_trades)]
       ELSE [total_trades |-> 0, winning_trades |-> 0, losing_trades |-> 0,
             win_rate_pct |-> Zero, avg_win_pct |-> Zero, avg_loss_pct |-> Zero,
             profit_factor |-> Zero, payoff_ratio |-> Zero,
             avg_trade_duration_days |-> Zero]

\* lines 54-177
compute_metrics(equity_curve, trade_dicts) ==
    LET first == equity_curve[1][2]
        last == equity_curve[Len(equity_curve)][2]
        total_return == Frac(last - first, first)
        drawdown == Drawdown(equity_curve)
        max_dd == SeriesMin(drawdown)
        dd_duration == _max_drawdown_duration(drawdown)
    IN [total_return_pct |-> FracTimes(total_return, 100),
        max_drawdown_pct |-> FracTimes(max_dd, 100),
        max_drawdown_duration_days |-> dd_duration,
        equity_curve |-> equity_curve,
        drawdown_series |-> drawdown]
       @@ TradeStatistics(trade_dicts)

\* run_backtest.py line 121: the metrics of a finished run
ComputeMetrics ==
    /\ pc = "done"
    /\ metrics' = compute_metrics(equity_history, trades)
    /\ pc' = "reported"
    /\ UNCHANGED <<inputs, capital, positions, trades, equity_history, i, k, loc>>

\* compute_metrics applied to an equity curve and a ledger drawn from the
\* input sets
InitMetrics ==
    /\ data = <<>> /\ instruments = <<>>
    /\ strategy_func = "flat" /\ fractional = FALSE
    /\ capital = initial_capital
    /\ positions = <<>>
    /\ i = 1 /\ k = 1
    /\ loc = NoLocals
    /\ equity_history \in EquityCurves
    /\ trades \in Ledgers
    /\ pc = "done"
    /\ metrics = NoMetrics

NextMetrics == ComputeMetrics

MetricsSpec == InitMetrics /\ [][NextMetrics]_vars

(***************************************************************************)
(* Properties                                                              *)
(***************************************************************************)
InstSet == {InstNames[n] : n \in DOMAIN InstNames}
\* the dates of an instrument's own calendar after J
Later(inst, J) == {d \in Index(data[inst]) : d > J}
LastDate(inst) == CHOOSE d \in Index(data[inst]) : Later(inst, d) = {}
\* a Position without its trailing references
Core(pos) == [pos EXCEPT !.peak_price = 0, !.trough_price = 0]
LastTrade(tr) == tr[Len(tr)]
InBody == pc = "signal" /\ k <= Len(items)
SingleInstrument == Cardinality(DOMAIN data) = 1

\* this step puts a new Position under n
Opens(n) ==
    /\ n \in DOMAIN positions'
    /\ n \notin DOMAIN positions \/ Core(positions'[n]) # Core(positions[n])

\* C1: no look-ahead.  Every step of run that appends a Trade or opens a
\* Position is the body of the inner loop for an instrument on a date J that
\* has a successor in the instrument's own calendar; the Trade's exit date and
\* the Position's entry date are that successor, strictly after J, and the fill
\* price is the successor's Open.
NoLookAhead ==
    [][ /\ (Len(trades') > Len(trades) \/ \E n \in InstSet : Opens(n))
            => InBody /\ Later(items[k], all_dates[i]) # {}
        /\ Len(trades') > Len(trades)
            => LET inst == items[k]
                   succ == SetMin(Later(inst, all_dates[i]))
                   t == LastTrade(trades')
               IN /\ Len(trades') = Len(trades) + 1
                  /\ t.instrument = inst
                  /\ t.exit_date = succ /\ t.exit_date > all_dates[i]
                  /\ t.exit_price = Loc(data[inst], succ).Open
        /\ \A n \in InstSet : Opens(n)
            => LET succ == SetMin(Later(n, all_dates[i]))
               IN /\ n = items[k]
                  /\ positions'[n].entry_date = succ
                  /\ positions'[n].entry_date > all_dates[i]
                  /\ positions'[n].entry_price = Loc(data[n], succ).Open
      ]_vars

\* a reversal has been executed on a calendar with a gap: the fill date is
\* the instrument's next date, not the next day
NoLookAheadWitness ==
    /\ loc.executed /\ loc.exec_date > loc.date + 1
    /\ Len(trades) >= 1
    /\ LastTrade(trades).exit_date = loc.exec_date
    /\ loc.inst_name \in DOMAIN positions
    /\ positions[loc.inst_name].entry_date = loc.exec_date

\* C2: at most one open Position per instrument (each open Position is filed
\* under its own instrument), and a step that removes or replaces an open
\* Position appends exactly one Trade, which records that Position.
OnePositionPerInstrument ==
    [][ /\ \A n \in DOMAIN positions : positions[n].instrument = n
        /\ \A n \in DOMAIN positions' : positions'[n].instrument = n
        /\ \A n \in DOMAIN positions :
             (n \notin DOMAIN positions' \/ Core(positions'[n]) # Core(positions[n]))
             => /\ Len(trades') = Len(trades) + 1
                /\ LET t == LastTrade(trades')
                       p == positions[n]
                   IN /\ t.instrument = n
                      /\ t.direction = p.direction
                      /\ t.contracts = p.contracts
                      /\ t.entry_price = p.entry_price
                      /\ t.entry_date = p.entry_date
      ]_vars

\* a reversal: the open Position follows a Trade of the opposite direction
\* closed at the fill that opened it
OnePositionWitness ==
    \E n \in DOMAIN positions : \E m \in DOMAIN trades :
        /\ trades[m].instrument = n
        /\ trades[m].direction = -positions[n].direction
        /\ trades[m].exit_date = positions[n].entry_date

TradeEntryCosts ==
    SumSeq([n \in DOMAIN trades |-> _calc_costs(trades[n].contracts, trades[n].entry_price)])
TradeExitCosts ==
    SumSeq([n \in DOMAIN trades |-> _calc_costs(trades[n].contracts, trades[n].exit_price)])
OpenEntryCosts ==
    SumOver([n \in DOMAIN positions |->
               _calc_costs(positions[n].contracts, positions[n].entry_price)],
            DOMAIN positions)
TradeNetPnl == SumSeq([n \in DOMAIN trades |-> trades[n].pnl])
TradeGrossPnl == SumSeq([n \in DOMAIN trades |-> trades[n].gross_pnl])

\* C3 as stated: at the end of a run the final capital is the initial capital
\* less all entry costs, less all exit costs, plus the net P&L of the trades.
CapitalConservationNet ==
    pc = "done" =>
        capital = initial_capital - (TradeEntryCosts + OpenEntryCosts)
                  - TradeExitCosts + TradeNetPnl

\* C3 amended: at the end of a run the final capital is the initial capital
\* less all entry costs (of closed and of still open Positions), less all exit
\* costs, plus the gross P&L of the trades.
CapitalConservation ==
    pc = "done" =>
        capital = initial_capital - (TradeEntryCosts + OpenEntryCosts)
                  - TradeExitCosts + TradeGrossPnl

CapitalConservationWitness ==
    /\ pc = "done"
    /\ Len(trades) >= 2
    /\ positions # <<>>
    /\ TradeExitCosts > 0

\* C4: with a single instrument and a strategy that always returns 0, no
\* Position is opened, the ledger is empty, the capital is the initial
\* capital and every equity observation is the initial capital.
FlatScenario ==
    (strategy_func = "flat" /\ SingleInstrument) =>
        /\ positions = <<>>
        /\ trades = <<>>
        /\ capital = initial_capital
        /\ \A n \in DOMAIN equity_history : equity_history[n][2] = initial_capital

FlatScenarioWitness ==
    /\ strategy_func = "flat" /\ SingleInstrument
    /\ pc = "done"
    /\ Len(equity_history) = MaxDate

\* the single instrument of a one-instrument run, and its rows
TheInst == items[1]
TheRows == data[TheInst]

\* the scenario of C5: one instrument, the strategy returning 0,0,+1,+1,0 on
\* its first five trading days, a fixed positive ATR, a positive point value
\* and a capital that buys a positive size
RoundTripCase ==
    /\ SingleInstrument
    /\ strategy_func = "roundtrip"
    /\ Len(TheRows) >= Len(RoundTripSignals)
    /\ TheInst \in DOMAIN instruments
    /\ instruments[TheInst].has_point_value
    /\ instruments[TheInst].point_value > 0
    /\ \A n \in DOMAIN TheRows : TheRows[n].atr = TheRows[1].atr
    /\ TheRows[1].atr # NaN /\ TheRows[1].atr > 0
    /\ fractional \/ initial_capital_default >=
           risk_factor_den * TheRows[1].atr * instruments[TheInst].point_value

EntersAfterFirstLong(t) ==
    /\ t.direction = 1
    /\ t.entry_date = TheRows[4].date
    /\ t.entry_price = TheRows[4].Open

\* C5 as stated: the run yields a Trade entered at the Open of the day after
\* the first +1 and exited at the Open of the day after the reversion to 0.
RoundTripYieldsTrade ==
    (RoundTripCase /\ pc = "done") =>
        \E n \in DOMAIN trades :
            /\ EntersAfterFirstLong(trades[n])
            /\ Len(TheRows) >= 6
            /\ trades[n].exit_date = TheRows[6].date
            /\ trades[n].exit_price = TheRows[6].Open

\* C5 amended: when the instrument has a trading day after the day of the
\* reversion, the run yields that Trade; when the five days are the whole
\* series, the entry executes at the Open of the fourth day, the exit lapses,
\* the Position stays open and the ledger is empty.
RoundTripScenario ==
    (RoundTripCase /\ pc = "done") =>
        IF Len(TheRows) >= 6
        THEN /\ Len(trades) >= 1
             /\ EntersAfterFirstLong(trades[1])
             /\ trades[1].exit_date = TheRows[6].date
             /\ trades[1].exit_price = TheRows[6].Open
        ELSE /\ trades = <<>>
             /\ TheInst \in DOMAIN positions
             /\ EntersAfterFirstLong(positions[TheInst])

RoundTripWitness ==
    /\ RoundTripCase /\ pc = "done"
    /\ Len(TheRows) >= 6
    /\ Len(trades) = 1
    /\ trades[1].exit_date = TheRows[6].date

\* the cost model of a quantity at a price: per-contract fees plus slippage
CostModel(contracts, price) ==
    (contracts * (commission_per_contract + exchange_fee_per_contract)
       + contracts * price * slippage_num) \div QScale

\* C6: for every Trade, gross P&L = (exit - entry) x direction x quantity x
\* point value, pnl = gross P&L - exit cost, the exit cost being the cost model
\* at the exit price; the entry cost is in costs but not in pnl.
NetPnlIsGrossLessExitCost ==
    \A n \in DOMAIN trades :
        LET t == trades[n]
            pv == instruments[t.instrument].point_value
            entry_cost == CostModel(t.contracts, t.entry_price)
            exit_cost == CostModel(t.contracts, t.exit_price)
        IN /\ t.gross_pnl = (t.exit_price - t.entry_price) * t.direction
                              * t.contracts * pv * UnitsPerQ
           /\ t.pnl = t.gross_pnl - exit_cost
           /\ t.costs = entry_cost + exit_cost
           /\ entry_cost > 0 => t.pnl # t.gross_pnl - t.costs

NetPnlWitness ==
    \E n \in DOMAIN trades :
        /\ trades[n].gross_pnl < 0
        /\ trades[n].direction = -1
        /\ trades[n].costs > trades[n].gross_pnl - trades[n].pnl

\* the capital _open_position sizes from in a step that executes: the capital
\* after the close of the open Position, if there was one
CapitalAtSizing ==
    IF Len(trades') > Len(trades) THEN capital + LastTrade(trades').pnl ELSE capital

\* the cases of a size <= 0 named by C7
SizeNotPositive(cap, atr, pv) ==
    \/ atr = NaN
    \/ atr <= 0
    \/ pv <= 0
    \/ ~fractional /\ cap < Scale * risk_factor_den * atr * pv

\* C7: a step that executes a non-zero signal whose size is not positive
\* raises nothing and opens no Position: the capital, the positions and the
\* ledger are those left by the close of the previous Position, and unchanged
\* when the instrument was flat.
ZeroSizeStaysFlat ==
    [][ (/\ InBody
         /\ items[k] \in DOMAIN instruments
         /\ all_dates[i] \in Index(data[items[k]])
         /\ instruments[items[k]].has_point_value
         /\ loc'.executed /\ loc'.signal # 0
         /\ SizeNotPositive(CapitalAtSizing, Loc(data[items[k]], all_dates[i]).atr,
                            instruments[items[k]].point_value))
        => /\ pc' # "raised"
           /\ items[k] \notin DOMAIN positions'
           /\ capital' = CapitalAtSizing
           /\ \A n \in DOMAIN positions : n # items[k] =>
                  n \in DOMAIN positions' /\ positions'[n] = positions[n]
           /\ items[k] \notin DOMAIN positions =>
                  capital' = capital /\ positions' = positions /\ trades' = trades
      ]_vars

ZeroSizeWitness ==
    /\ pc = "signal"
    /\ loc.executed /\ loc.signal # 0 /\ loc.current_dir = 0
    /\ loc.inst_name \notin DOMAIN positions
    /\ ~fractional
    /\ Loc(data[loc.inst_name], loc.date).atr > 0
    /\ instruments[loc.inst_name].point_value > 0

\* C8: for a positive capital and each point value, the quantity sized is
\* non-increasing in the ATR over positive ATRs, in whole-contract and in
\* fractional mode, and an ATR of zero sizes zero contracts.
SizingMonotone ==
    capital > 0 =>
        \A pv \in {1, 50} :
            /\ SizeContracts(capital, 0, pv) = 0
            /\ \A a1, a2 \in 1..MaxAtr :
                   a1 <= a2 => SizeContracts(capital, a2, pv) <= SizeContracts(capital, a1, pv)

\* an instrument traded at a low ATR and then at a higher one: the Position
\* sized at the higher ATR is smaller than the Trade sized at the lower one
SizingMonotoneWitness ==
    \E n \in DOMAIN positions : \E m \in DOMAIN trades :
        /\ trades[m].instrument = n
        /\ positions[n].entry_atr > 2
        /\ positions[n].contracts > 0
        /\ positions[n].contracts < trades[m].contracts

\* C9: in whole-contract mode the quantity of every Position opened is a
\* whole number c >= 1 of contracts with c x ATR x pv <= capital x r at the
\* opening, and (c + 1) x ATR x pv > capital x r: the raw size floored.
WholeContractsFloored ==
    [][ ~fractional =>
          \A n \in InstSet : Opens(n) =>
              LET p == positions'[n]
                  c == p.contracts \div QScale
                  dollars == CapitalAtSizing \div Scale
              IN /\ p.contracts % QScale = 0
                 /\ c >= 1
                 /\ c * p.entry_atr * p.point_value * risk_factor_den <= dollars
                 /\ (c + 1) * p.entry_atr * p.point_value * risk_factor_den > dollars
      ]_vars

\* a Position sized in whole contracts from a capital that costs and P&L
\* have moved off the initial capital
WholeContractsWitness ==
    /\ ~fractional
    /\ Len(trades) >= 1
    /\ \E n \in DOMAIN positions :
           /\ positions[n].contracts >= QScale
           /\ capital # initial_capital

\* C10: from the last date of an instrument's own calendar on, no step closes,
\* opens or replaces its Position or appends a Trade for it; the body of the
\* inner loop for the instrument on that date, whatever the signal, raises
\* nothing and leaves the capital, the positions and the ledger unchanged.
EndOfSeriesLapses ==
    [][ \A n \in DOMAIN data :
          (pc \in {"mark", "signal", "final"} /\ all_dates[i] >= LastDate(n)) =>
            /\ n \in DOMAIN positions <=> n \in DOMAIN positions'
            /\ n \in DOMAIN positions => Core(positions'[n]) = Core(positions[n])
            /\ Len(trades') > Len(trades) => LastTrade(trades').instrument # n
            /\ (InBody /\ items[k] = n /\ n \in DOMAIN instruments) =>
                  /\ capital' = capital
                  /\ positions' = positions
                  /\ trades' = trades
                  /\ pc' # "raised"
      ]_vars

\* a run has ended with an open Position whose closing or reversal was
\* requested on the last date of its instrument
EndOfSeriesWitness ==
    /\ pc = "done"
    /\ loc.signal # loc.current_dir
    /\ ~loc.executed
    /\ loc.date = LastDate(loc.inst_name)
    /\ loc.inst_name \in DOMAIN positions
    /\ positions[loc.inst_name].direction = loc.current_dir

\* the instruments with a row on date d
Present(d) == {n \in DOMAIN data : d \in Index(data[n])}
UnrealizedOver(S, d) ==
    SumOver([n \in S |-> GrossPnl(positions[n], Loc(data[n], d).Close)], S)

\* C11: missing row.  On a date of the calendar where an instrument has no
\* row, no step of that date's iteration touches it: the body of the inner
\* loop for it changes nothing (the strategy is not called, nothing is
\* executed), no step opens, closes or alters its Position, trailing references
\* included, no Trade of it is booked, and the equity recorded for the date is
\* the capital plus the unrealized P&L of the instruments that have a row.
MissingRowSkipped ==
    [][ \A n \in DOMAIN data :
          (pc \in {"mark", "signal", "final"} /\ n \notin Present(all_dates[i]))
          => /\ (n \in DOMAIN positions') = (n \in DOMAIN positions)
             /\ n \in DOMAIN positions => positions'[n] = positions[n]
             /\ \A t \in (Len(trades) + 1)..Len(trades') : trades'[t].instrument # n
             /\ loc' # loc => loc'.inst_name # n
             /\ (InBody /\ items[k] = n)
                  => /\ k' = k + 1
                     /\ UNCHANGED <<capital, positions, trades, equity_history,
                                    i, pc, loc>>
             /\ pc \in {"mark", "final"}
                  => equity_history'[Len(equity_history')] =
                       <<all_dates[i],
                         capital + UnrealizedOver(DOMAIN positions \cap Present(all_dates[i]),
                                                  all_dates[i])>>
      ]_vars

\* a transition of another instrument has been executed on a date where an
\* instrument with an open Position has no row
MissingRowWitness ==
    /\ pc = "signal" /\ loc.date = all_dates[i] /\ loc.executed
    /\ \E n \in DOMAIN positions :
         n # loc.inst_name /\ n \notin Present(all_dates[i])

\* C16: a malformed instrument configuration fails before the simulation
\* begins.  When run has raised for an instrument without a configuration
\* entry or without a point value, no equity observation has been recorded, no
\* Position has been opened or closed and the capital is the initial capital.
ConfigFailsBeforeSimulation ==
    pc = "raised"
    => /\ equity_history = <<>>
       /\ positions = <<>> /\ trades = <<>>
       /\ capital = initial_capital

\* C17: equity for a date is recorded before that date's decisions.  The
\* first step of the iteration of date D appends <<D, capital + unrealized P&L
\* at D's Close over the open Positions with a row on D>>, computed from the
\* state before any strategy call of D; no later step changes an observation
\* already recorded, the replacement of the last observation at the end of
\* run included.
EquityBeforeDecisions ==
    [][ /\ pc = "mark"
            => equity_history' =
                 Append(equity_history,
                        <<all_dates[i],
                          capital + UnrealizedOver(DOMAIN positions \cap Present(all_dates[i]),
                                                   all_dates[i])>>)
        /\ pc # "mark" => equity_history' = equity_history
      ]_vars

\* run has returned; the strategy asked for a transition on the last date
\* while a Position with a non-zero unrealized P&L was open
EquityBeforeDecisionsWitness ==
    /\ pc = "done"
    /\ loc.date = all_dates[Len(all_dates)] /\ loc.signal # loc.current_dir
    /\ positions # <<>>
    /\ equity_history[Len(equity_history)] # <<all_dates[Len(all_dates)], capital>>

\* C18: for every Trade the exit date is not before the entry date, and
\* holding_days is the number of calendar days from the entry date to the
\* exit date.
HoldingDaysAreCalendarDays ==
    \A n \in DOMAIN trades :
        /\ trades[n].exit_date >= trades[n].entry_date
        /\ trades[n].holding_days = trades[n].exit_date - trades[n].entry_date

\* a Trade held across a gap of its instrument's calendar: more calendar days
\* than rows
HoldingDaysWitness ==
    \E n \in DOMAIN trades :
        trades[n].holding_days >
          Cardinality({d \in Index(data[trades[n].instrument]) :
                         trades[n].entry_date < d /\ d <= trades[n].exit_date})

\* C19: trailing references are monotone.  While a Position stays open no
\* step lowers its peak price or raises its trough price; the peak of a long
\* Position is never below its entry price and the trough of a short Position
\* is never above its entry price.
TrailingMonotone ==
    [][ /\ \A n \in DOMAIN positions \cap DOMAIN positions' :
              Core(positions'[n]) = Core(positions[n])
              => /\ positions'[n].peak_price >= positions[n].peak_price
                 /\ positions'[n].trough_price <= positions[n].trough_price
        /\ \A n \in DOMAIN positions' :
              /\ positions'[n].direction = 1
                   => positions'[n].peak_price >= positions'[n].entry_price
              /\ positions'[n].direction = -1
                   => positions'[n].trough_price <= positions'[n].entry_price
      ]_vars

\* the trailing update of the previous date has kept a peak above both the
\* entry price and that date's High
TrailingMonotoneWitness ==
    /\ pc = "mark" /\ i > 1
    /\ \E n \in DOMAIN positions \cap Present(all_dates[i - 1]) :
         /\ positions[n].direction = 1
         /\ positions[n].peak_price > positions[n].entry_price
         /\ positions[n].peak_price > Loc(data[n], all_dates[i - 1]).High

\* the value and the date of the n-th observation of the equity curve handed
\* to compute_metrics
Value(n) == equity_history[n][2]
Date(n) == equity_history[n][1]
\* the n-th observation is below the highest equity seen so far
Below(n) == \E j \in 1..n : Value(j) > Value(n)
\* the observations strictly between p and r are the only ones below the
\* running peak: p is the peak, r the recovery
SingleTrough(p, r) ==
    /\ p \in DOMAIN equity_history /\ r \in DOMAIN equity_history /\ p + 1 < r
    /\ \A n \in DOMAIN equity_history : Below(n) <=> (p < n /\ n < r)
TroughValue(p, r) == SetMin({Value(n) : n \in (p + 1)..(r - 1)})

\* C12 as stated: on a single-trough series the maximum drawdown is the fall
\* from the peak to the trough (-20% for 100, 90, 80, 90, 100) and the duration
\* runs from the date of the peak to the date of the recovery.
SingleTroughPeakToRecovery ==
    pc = "reported"
    => \A p, r \in DOMAIN equity_history :
         SingleTrough(p, r)
         => /\ metrics.max_drawdown_pct =
                 Frac(100 * (TroughValue(p, r) - Value(p)), Value(p))
            /\ metrics.max_drawdown_duration_days = Date(r) - Date(p)

\* C12: on a single-trough series the maximum drawdown is the fall from the
\* peak to the trough (-20% for 100, 90, 80, 90, 100) and the duration runs
\* from the first date below the peak to the last date below the peak.
SingleTroughFirstToLastBelow ==
    pc = "reported"
    => \A p, r \in DOMAIN equity_history :
         SingleTrough(p, r)
         => /\ metrics.max_drawdown_pct =
                 Frac(100 * (TroughValue(p, r) - Value(p)), Value(p))
            /\ metrics.max_drawdown_duration_days = Date(r - 1) - Date(p + 1)

\* the metrics of 100, 90, 80, 90, 100 on five consecutive days
SingleTroughWitness ==
    /\ pc = "reported"
    /\ equity_history = <<<<1, 100>>, <<2, 90>>, <<3, 80>>, <<4, 90>>, <<5, 100>>>>
    /\ metrics.max_drawdown_pct = <<-20, 1>>
    /\ metrics.max_drawdown_duration_days = 2

\* the observations a..b are a maximal run of observations below the peak
MaximalRun(a, b) ==
    /\ a \in DOMAIN equity_history /\ b \in DOMAIN equity_history /\ a <= b
    /\ \A n \in a..b : Below(n)
    /\ a = 1 \/ ~Below(a - 1)
    /\ b = Len(equity_history) \/ ~Below(b + 1)

\* C13: the maximum-drawdown duration is the largest, over the maximal runs of
\* consecutive observations with a strictly negative drawdown, of the calendar
\* days from the first to the last date of the run: an observation at or above
\* the peak ends a run, a run still open at the end of the series counts, a
\* run of one observation lasts 0 days, and the result is 0 without any run.
DrawdownDurationOverRuns ==
    pc = "reported"
    => metrics.max_drawdown_duration_days =
         SetMax({0} \cup {Date(run[2]) - Date(run[1]) :
                            run \in {x \in (DOMAIN equity_history) \X (DOMAIN equity_history) :
                                       MaximalRun(x[1], x[2])}})

\* two runs separated by a recovery, the second of one observation and still
\* open at the end of the series; the reported duration is that of the first
DrawdownDurationWitness ==
    /\ pc = "reported"
    /\ \E a, b \in DOMAIN equity_history :
         /\ MaximalRun(a, b) /\ a < b /\ b + 1 < Len(equity_history)
         /\ MaximalRun(Len(equity_history), Len(equity_history))
         /\ metrics.max_drawdown_duration_days = Date(b) - Date(a)
         /\ Date(b) - Date(a) > b - a

NonDecreasing ==
    \A n \in 1..(Len(equity_history) - 1) : Value(n) <= Value(n + 1)

\* C14: for a non-decreasing series of positive equity values compute_metrics
\* reports a maximum drawdown of 0 and a maximum-drawdown duration of 0.
MonotoneNoDrawdown ==
    (pc = "reported" /\ NonDecreasing)
    => /\ metrics.max_drawdown_pct = Zero
       /\ metrics.max_drawdown_duration_days = 0

\* the metrics of a series that rises, with a plateau, over at least four
\* observations
MonotoneWitness ==
    /\ pc = "reported" /\ NonDecreasing
    /\ Len(equity_history) >= 4
    /\ Value(1) < Value(Len(equity_history))
    /\ \E n \in 1..(Len(equity_history) - 1) : Value(n) = Value(n + 1)
    /\ metrics.max_drawdown_pct = Zero
    /\ metrics.max_drawdown_duration_days = 0

\* no trade of the ledger handed to compute_metrics has lost money
NoLosingTrade == \A n \in DOMAIN trades : trades[n].pnl >= 0

\* C15 as stated: for every ledger without a losing trade the profit factor
\* and the payoff ratio are +infinity.
NoLossMeansInfinite ==
    (pc = "reported" /\ NoLosingTrade)
    => /\ metrics.profit_factor = float_inf
       /\ metrics.payoff_ratio = float_inf

\* C15: for every ledger of at least one trade without a losing trade the
\* profit factor and the payoff ratio are +infinity; for the empty ledger both
\* are 0.
NoLossMeansInfiniteUnlessEmpty ==
    (pc = "reported" /\ NoLosingTrade)
    => /\ trades # <<>> => /\ metrics.profit_factor = float_inf
                           /\ metrics.payoff_ratio = float_inf
       /\ trades = <<>> => /\ metrics.profit_factor = Zero
                           /\ metrics.payoff_ratio = Zero

\* the metrics of a ledger holding a winning and a break-even trade
NoLossWitness ==
    /\ pc = "reported" /\ NoLosingTrade
    /\ \E n \in DOMAIN trades : trades[n].pnl > 0 /\ trades[n].pnl_pct[1] > 0
    /\ \E n \in DOMAIN trades : trades[n].pnl = 0
    /\ metrics.profit_factor = float_inf
    /\ metrics.payoff_ratio = float_inf

\* C21: reversal ordering.  A step that executes a signal opposite to the
\* direction of the open Position books exactly one Trade, that of the open
\* Position, at the fill price and date; the new Position is sized from the
\* capital after that close (the capital before the step plus the Trade's
\* net P&L), pays its entry cost from it, and its entry price and entry date
\* are the Trade's exit price and exit date.  When that size is not positive
\* the instrument is left flat.
ReversalClosesThenOpens ==
    [][ (/\ InBody
         /\ all_dates[i] \in Index(data[items[k]])
         /\ items[k] \in DOMAIN instruments
         /\ items[k] \in DOMAIN positions
         /\ loc'.executed /\ loc'.signal = -positions[items[k]].direction
         /\ pc' # "raised")
        => LET n == items[k]
               old == positions[n]
               t == LastTrade(trades')
               post == capital + t.pnl
               size == SizeContracts(post, Loc(data[n], all_dates[i]).atr,
                                     instruments[n].point_value)
           IN /\ trades' = Append(trades, t)
              /\ t.instrument = n /\ t.direction = old.direction
              /\ t.contracts = old.contracts
              /\ t.entry_price = old.entry_price /\ t.entry_date = old.entry_date
              /\ t.exit_price = loc'.exec_price /\ t.exit_date = loc'.exec_date
              /\ IF size > 0
                 THEN /\ n \in DOMAIN positions'
                      /\ positions'[n].direction = loc'.signal
                      /\ positions'[n].contracts = size
                      /\ positions'[n].entry_price = t.exit_price
                      /\ positions'[n].entry_date = t.exit_date
                      /\ capital' = post - _calc_costs(size, t.exit_price)
                 ELSE n \notin DOMAIN positions' /\ capital' = post
      ]_vars

\* a reversal has been executed and the new Position, sized after the close,
\* holds another quantity than the Position it replaces
ReversalWitness ==
    /\ pc = "signal" /\ loc.executed
    /\ loc.current_dir # 0 /\ loc.signal = -loc.current_dir
    /\ loc.inst_name \in DOMAIN positions
    /\ trades # <<>>
    /\ LastTrade(trades).exit_date = positions[loc.inst_name].entry_date
    /\ LastTrade(trades).exit_price = positions[loc.inst_name].entry_price
    /\ LastTrade(trades).contracts # positions[loc.inst_name].contracts

\* the trailing update of date d has run
Processed(d) == d < all_dates[i] \/ (pc \in {"final", "done"} /\ d <= all_dates[i])
\* the processed dates of instrument n on or after the entry date of its Position
HeldDates(n) ==
    {d \in Index(data[n]) : positions[n].entry_date <= d /\ Processed(d)}

\* C22: the trailing reference is the best price since the entry.  The peak
\* of a long Position is the maximum of its entry price and the Highs of the
\* instrument's processed dates on or after its entry date; the trough of a
\* short Position is the minimum of its entry price and the Lows of those
\* dates.
TrailingSinceEntry ==
    \A n \in DOMAIN positions :
        /\ positions[n].direction = 1
             => positions[n].peak_price =
                  SetMax({positions[n].entry_price}
                         \cup {Loc(data[n], d).High : d \in HeldDates(n)})
        /\ positions[n].direction = -1
             => positions[n].trough_price =
                  SetMin({positions[n].entry_price}
                         \cup {Loc(data[n], d).Low : d \in HeldDates(n)})

\* the fraction pct is num / den, for den > 0
SamePct(pct, num, den) == pct[1] = num /\ (num = 0 \/ pct[2] = den)

\* C23 as stated: the denominator of a Trade's percentage P&L is the capital
\* after the close plus the Trade's net P&L minus its total costs.
PctOfPostPlusNetLessCosts ==
    [][ Len(trades') > Len(trades)
        => LET t == LastTrade(trades')
               post == capital + t.pnl
               entry_equity == post + t.pnl - t.costs
           IN IF entry_equity > 0 THEN SamePct(t.pnl_pct, t.pnl, entry_equity)
              ELSE t.pnl_pct[1] = 0
      ]_vars

\* C23: the denominator of a Trade's percentage P&L is the capital after the
\* close minus the Trade's net P&L plus its total costs (entry + exit), and
\* pnl_pct is the net P&L divided by it, 0 when it is not positive.
PctOfPostLessNetPlusCosts ==
    [][ Len(trades') > Len(trades)
        => LET t == LastTrade(trades')
               post == capital + t.pnl
               entry_equity == post - t.pnl + t.costs
           IN IF entry_equity > 0 THEN SamePct(t.pnl_pct, t.pnl, entry_equity)
              ELSE t.pnl_pct[1] = 0
      ]_vars

\* a Trade with a gain, whose percentage is taken of another amount than
\* the capital after its close
PctWitness ==
    /\ pc = "signal" /\ loc.executed /\ loc.signal = 0 /\ loc.current_dir # 0
    /\ trades # <<>>
    /\ LastTrade(trades).pnl > 0
    /\ LastTrade(trades).pnl_pct[1] = LastTrade(trades).pnl
    /\ LastTrade(trades).pnl_pct[2] = capital - LastTrade(trades).pnl + LastTrade(trades).costs

\* gross profit and gross loss of the ledger handed to compute_metrics
LedgerProfit == SumSeq([n \in DOMAIN trades |->
                          IF trades[n].pnl > 0 THEN trades[n].pnl ELSE 0])
LedgerLoss == Abs(SumSeq([n \in DOMAIN trades |->
                            IF trades[n].pnl <= 0 THEN trades[n].pnl ELSE 0]))

\* C24: degenerate trade statistics.  The profit factor is +infinity exactly
\* when the gross loss is zero and the gross profit is positive, and 0 when
\* both are zero; the payoff ratio is +infinity exactly when the average loss
\* is zero and the average win is positive, and 0 when both are zero.
DegenerateRatios ==
    pc = "reported"
    => /\ metrics.profit_factor = float_inf <=> (LedgerLoss = 0 /\ LedgerProfit > 0)
       /\ (LedgerLoss = 0 /\ LedgerProfit = 0) => metrics.profit_factor = Zero
       /\ metrics.payoff_ratio = float_inf
            <=> (metrics.avg_loss_pct = Zero /\ metrics.avg_win_pct[1] > 0)
       /\ (metrics.avg_loss_pct = Zero /\ metrics.avg_win_pct = Zero)
            => metrics.payoff_ratio = Zero

\* C25: cash-capital accounting identity.  In every state of a run the
\* capital is the initial capital, less the entry costs of every Position
\* opened so far (those of the Trades and those of the open Positions), plus
\* the pnl of every Trade recorded so far.
CapitalIdentity ==
    capital = initial_capital - (TradeEntryCosts + OpenEntryCosts) + TradeNetPnl

\* in the middle of a run, with Trades booked and a Position open, the sum of
\* the Trades' pnl differs from the change in capital
CapitalIdentityWitness ==
    /\ pc = "signal"
    /\ Len(trades) >= 2 /\ positions # <<>>
    /\ TradeNetPnl # capital - initial_capital
    /\ TradeNetPnl - (capital - initial_capital) = TradeEntryCosts + OpenEntryCosts

\* the Positions this step closes: removed from the mapping or replaced
ClosedBy ==
    {n \in DOMAIN positions :
       n \notin DOMAIN positions' \/ Core(positions'[n]) # Core(positions[n])}

\* C26: position conservation.  Every step books exactly one Trade for each
\* Position it closes, the Trade of that Position, and no other Trade, so
\* that the Positions opened so far are the Trades plus the open Positions;
\* only the body of the inner loop opens or closes, one Position at most, and
\* a Position open when the calendar ends stays in the mapping without Trade.
PositionConservation ==
    [][ /\ Len(trades') = Len(trades) + Cardinality(ClosedBy)
        /\ SubSeq(trades', 1, Len(trades)) = trades
        /\ Cardinality(ClosedBy) <= 1
        /\ \A n \in ClosedBy :
             /\ LastTrade(trades').instrument = n
             /\ LastTrade(trades').direction = positions[n].direction
             /\ LastTrade(trades').contracts = positions[n].contracts
             /\ LastTrade(trades').entry_date = positions[n].entry_date
             /\ LastTrade(trades').entry_price = positions[n].entry_price
        /\ ~InBody => ClosedBy = {} /\ \A n \in InstSet : ~Opens(n)
      ]_vars

\* run has returned with Trades in the ledger and a Position still open
PositionConservationWitness ==
    /\ pc = "done"
    /\ Len(trades) >= 2
    /\ positions # <<>>
    /\ \E n \in DOMAIN positions : \E m \in DOMAIN trades : trades[m].instrument = n

\* C27: no future price in the equity curve.  When the equity of date D is
\* computed, every amount booked into the capital comes from a fill dated on
\* or before D: every Trade has its exit date, and every open Position its
\* entry date, on or before D.
EquityFromPastFillsOnly ==
    pc = "mark"
    => /\ \A n \in DOMAIN trades : trades[n].exit_date <= all_dates[i]
       /\ \A n \in DOMAIN positions : positions[n].entry_date <= all_dates[i]

\* C28: whenever the strategy is called for date J, every Position of the
\* mapping it receives has its entry date on or before J (and with it its
\* entry price, the Open of the entry date).
StrategySeesPastPositionsOnly ==
    (/\ InBody
     /\ all_dates[i] \in Index(data[items[k]])
     /\ items[k] \in DOMAIN instruments)
    => \A n \in DOMAIN positions : positions[n].entry_date <= all_dates[i]

\* C29: the final mark-to-market pass never changes the equity curve.  No
\* step of the iteration of the last calendar date executes anything: the
\* capital, the ledger and the open Positions (trailing references apart)
\* stay those of the start of that iteration, and the replacement of the last
\* observation writes the value recorded for that date.
FinalMarkChangesNothing ==
    [][ /\ (i = Len(all_dates) /\ pc \in {"mark", "signal", "final"})
            => /\ capital' = capital /\ trades' = trades
               /\ DOMAIN positions' = DOMAIN positions
               /\ \A n \in DOMAIN positions : Core(positions'[n]) = Core(positions[n])
               /\ loc' # loc => ~loc'.executed
        /\ pc = "final" => equity_history' = equity_history
      ]_vars

\* run has returned from a calendar shared by two instruments; Trades were
\* booked, a Position is open at a gain or a loss, and the transition asked
\* for on the last date was not executed
FinalMarkWitness ==
    /\ pc = "done"
    /\ Cardinality(DOMAIN data) = 2
    /\ trades # <<>> /\ positions # <<>>
    /\ loc.date = all_dates[Len(all_dates)]
    /\ loc.signal # loc.current_dir /\ ~loc.executed
    /\ equity_history[Len(equity_history)][2] # capital

\* C30: every Trade has its exit date strictly after its entry date, a
\* holding period of at least one day, and its entry date on or after the
\* exit date of every earlier Trade of the same instrument.
TradesOrderedInTime ==
    \A n \in DOMAIN trades :
        /\ trades[n].exit_date > trades[n].entry_date
        /\ trades[n].holding_days >= 1
        /\ \A m \in 1..(n - 1) :
             trades[m].instrument = trades[n].instrument
             => trades[n].entry_date >= trades[m].exit_date

\* a Trade entered by a reversal on the exit date of the instrument's previous
\* Trade and held for one day, and a third Trade of the instrument entered
\* later than the second was closed
TradesOrderedWitness ==
    \E l, m, n \in DOMAIN trades :
        /\ l < m /\ m < n
        /\ trades[l].instrument = trades[m].instrument
        /\ trades[m].instrument = trades[n].instrument
        /\ trades[m].entry_date = trades[l].exit_date
        /\ trades[m].holding_days = 1
        /\ trades[n].entry_date > trades[m].exit_date

====
